---- MODULE Spec2Model ----
(***************************************************************************)
(* Playback controller of visualization.py                                 *)
(* (plot_sorting_animation_from_json): the closure variables step_index,   *)
(* running, paused, finished, current_arr, anim and generator, the three   *)
(* button callbacks, and the timers of the FuncAnimation objects the code  *)
(* creates.  One action is one callback run to completion on the GUI       *)
(* thread; a timer firing is an action of its own.                         *)
(*                                                                         *)
(* Indices are 0-based as in the Python code: the frame at step_index is   *)
(* states[step_index + 1] here.                                            *)
(***************************************************************************)
EXTENDS Integers, Sequences, FiniteSets, TLC

\* Bounds of the model.
MaxFrames == 3      \* longest frame sequence loaded from a log
MaxOrphans == 2     \* abandoned timers are counted up to this number
MaxRedraw == 2      \* placeholder renders recorded per run

VARIABLES
    states,         \* the frame sequence loaded from the log (line 63-66)
    original_arr,   \* line 92
    current_arr,    \* line 93
    bars,           \* heights of the bar artists (line 82)
    step_index,     \* line 94
    running,        \* line 95
    paused,         \* line 96
    finished,       \* line 97
    generator,      \* line 98: position of the state_generator object
    anim,           \* the FuncAnimation the name anim is bound to
    orphans,        \* FuncAnimations no name is bound to, timer still running
    label,          \* text of the Pause/Resume button
    window,         \* "hidden" until plt.show() has drawn the figure
    \* history variables: what has been observed, not read by the program
    shown,          \* index in states of the frame current_arr refers to
    delivered,      \* indices of the frames update() rendered in this run
    redraws,        \* how many of them came from a placeholder generator
    resumeMark,     \* Len(delivered) at the last resume of this run, or -1
    lastEvent,      \* the callback that ran last
    prev,           \* the program state before it ran
    \* the call of plot_sorting_animation_from_json and how its loading ended
    call,           \* the log's lines and algo_name (lines 22, 47-48)
    outcome,        \* "pending" until lines 32-98 have run, then how they ended
    log_opened,     \* history: whether open(log_file_path) was reached (line 47)
    step_records    \* history: the (step, value) list as line 62 sorted it

vars == <<states, original_arr, current_arr, bars, step_index, running, paused,
          finished, generator, anim, orphans, label, window, shown, delivered,
          redraws, resumeMark, lastEvent, prev, call, outcome, log_opened,
          step_records>>

loaderVars == <<call, outcome, log_opened, step_records>>

(***************************************************************************)
(* Inputs: the frame sequences the loader can hand to the controller.      *)
(* Lines 64-69: the sequence is not empty and its last frame is sorted.    *)
(***************************************************************************)
FrameSet == { <<2, 1>>, <<1, 2>>, <<1, 1>> }

IsSorted(f) == \A i \in 1..(Len(f) - 1) : f[i] <= f[i + 1]

LoadedStates ==
    { s \in UNION { [1..k -> FrameSet] : k \in 1..MaxFrames } : IsSorted(s[Len(s)]) }

(***************************************************************************)
(* The program state the callbacks read and write, as one record.          *)
(***************************************************************************)
View == [step_index |-> step_index, running |-> running, paused |-> paused,
         finished |-> finished, generator |-> generator, anim |-> anim,
         orphans |-> orphans, bars |-> bars, current_arr |-> current_arr,
         label |-> label]

(***************************************************************************)
(* FuncAnimation, as the code uses it.  frames is the generator it was     *)
(* built on; event_source is its timer: "stopped", "running", or "none"    *)
(* once the frames are exhausted (repeat=False); started says whether the  *)
(* first draw of the figure has reached it.                                *)
(***************************************************************************)
NewAnimation(frames) ==
    [frames |-> frames, event_source |-> "stopped", started |-> FALSE]

AnimPause(a) == [a EXCEPT !.event_source = "stopped"]

AnimResume(a) == [a EXCEPT !.event_source = "running"]

\* anim.event_source.stop() behind the guards of lines 174 and 184
StopIfPresent(a) == IF a.event_source = "none" THEN a ELSE AnimPause(a)

\* The first draw after construction: the animation's timer is started.
AnimStart(a) == [a EXCEPT !.event_source = "running", !.started = TRUE]

\* The frames are exhausted: the animation pauses and drops its timer.
AnimExhaust(a) == [a EXCEPT !.event_source = "none"]

TimerFires(a) == a.started /\ a.event_source = "running"

ActiveTimers == orphans + (IF anim.event_source = "running" THEN 1 ELSE 0)

(***************************************************************************)
(* state_generator (lines 101-108), resumed once by next().  g is where    *)
(* the generator object is suspended, idx is step_index, n is len(states). *)
(* The result says where it stops, the new step_index, whether it set      *)
(* finished, and whether it yielded states[step_index].                    *)
(***************************************************************************)
GenResult_finished_not_set(idx, n) ==
    IF idx < n
    THEN [generator |-> "suspended", step_index |-> idx, sets_finished |-> FALSE,
          yields |-> TRUE]
    ELSE [generator |-> "exhausted", step_index |-> idx, sets_finished |-> FALSE,
          yields |-> FALSE]

GenResult_finished_early(idx, n) ==
    IF idx < n - 1
    THEN [generator |-> "suspended", step_index |-> idx, sets_finished |-> FALSE,
          yields |-> TRUE]
    ELSE [generator |-> "exhausted", step_index |-> idx, sets_finished |-> TRUE,
          yields |-> FALSE]

GenResult(idx, n) ==
    IF idx < n
    THEN [generator |-> "suspended", step_index |-> idx, sets_finished |-> FALSE,
          yields |-> TRUE]
    ELSE [generator |-> "exhausted", step_index |-> idx, sets_finished |-> TRUE,
          yields |-> FALSE]

state_generator_no_increment(g, idx, n) ==
    CASE g = "created"   -> GenResult(idx, n)
      [] g = "suspended" -> GenResult(idx, n)
      [] OTHER           -> [generator |-> g, step_index |-> idx,
                             sets_finished |-> FALSE, yields |-> FALSE]

state_generator(g, idx, n) ==
    CASE g = "created"   -> GenResult(idx, n)
      [] g = "suspended" -> GenResult(idx + 1, n)
      [] OTHER           -> [generator |-> g, step_index |-> idx,
                             sets_finished |-> FALSE, yields |-> FALSE]

(***************************************************************************)
(* update (lines 111-117).  Renders tells whether the frame is drawn;      *)
(* SetHeights is the loop over enumerate(current_arr).                     *)
(***************************************************************************)
Renders(run, pau) == run /\ ~pau

SetHeights(b, frame) ==
    [i \in DOMAIN b |-> IF i <= Len(frame) THEN frame[i] ELSE b[i]]

update_arr(run, pau, frame, cur) == IF Renders(run, pau) THEN frame ELSE cur

update_bars(run, pau, frame, b) ==
    IF Renders(run, pau) THEN SetHeights(b, frame) ELSE b

\* The playback specification starts from any loaded frame sequence: the
\* call that produced it and the discarded step records are not kept.
NotTracked == "not tracked"

(***************************************************************************)
(* Init: the closure as lines 76-127 and 193-218 leave it, before          *)
(* plt.show() draws the figure.                                            *)
(***************************************************************************)
Init ==
    /\ states \in LoadedStates
    /\ original_arr = states[1]
    /\ current_arr = states[1]
    /\ bars = states[1]
    /\ step_index = 0
    /\ running = FALSE
    /\ paused = TRUE
    /\ finished = FALSE
    /\ generator = "none"
    /\ anim = AnimPause(NewAnimation("dummy"))
    /\ orphans = 0
    /\ label = "Resume"
    /\ window = "hidden"
    /\ shown = 0
    /\ delivered = << >>
    /\ redraws = 0
    /\ resumeMark = -1
    /\ lastEvent = "init"
    /\ prev = View
    /\ call = NotTracked
    /\ outcome = "loaded"
    /\ log_opened = TRUE
    /\ step_records = NotTracked

(***************************************************************************)
(* plt.show() (line 219): the first draw of the figure starts the          *)
(* placeholder animation; its first frame reaches update() with running    *)
(* false, so nothing is rendered.                                          *)
(***************************************************************************)
show ==
    /\ window = "hidden"
    /\ window' = "shown"
    /\ anim' = AnimStart(anim)
    /\ current_arr' = update_arr(running, paused, current_arr, current_arr)
    /\ bars' = update_bars(running, paused, current_arr, bars)
    /\ lastEvent' = "show"
    /\ prev' = View
    /\ UNCHANGED loaderVars
    /\ UNCHANGED <<states, original_arr, step_index, running, paused, finished,
                   generator, orphans, label, shown, delivered, redraws,
                   resumeMark>>

(***************************************************************************)
(* start (lines 130-149).                                                  *)
(*   not running: a state_generator and a FuncAnimation on it are created  *)
(*   and anim is rebound to it; the animation anim was bound to is not     *)
(*   stopped, so its timer keeps firing.  fig.canvas.draw() (line 149) is  *)
(*   the new animation's first draw: it takes the first frame from the     *)
(*   generator and passes it to update(), with running already true.       *)
(*   paused and not finished: the timer is resumed.                        *)
(*   otherwise: only the redraw.                                           *)
(***************************************************************************)
start_begins_when_finished == ~running \/ finished

start_begins_when_unpaused == ~running \/ ~paused

start_begins == ~running

start_resumes == paused /\ ~finished

\* The animation the name anim loses (line 137) keeps whatever timer it has.
Abandon(a, n) == IF TimerFires(a) /\ n < MaxOrphans THEN n + 1 ELSE n

start ==
    /\ window = "shown"
    /\ IF start_begins
       THEN LET g    == state_generator("created", 0, Len(states))
                draw == g.yields /\ Renders(TRUE, FALSE)
            IN  /\ step_index' = g.step_index
                /\ finished' = g.sets_finished
                /\ generator' = g.generator
                /\ orphans' = Abandon(anim, orphans)
                /\ anim' = IF g.yields
                           THEN AnimStart(AnimResume(NewAnimation("generator")))
                           ELSE AnimExhaust(AnimStart(NewAnimation("generator")))
                /\ running' = TRUE
                /\ paused' = FALSE
                /\ label' = "Pause"
                /\ current_arr' =
                      IF g.yields
                      THEN update_arr(TRUE, FALSE, states[g.step_index + 1], current_arr)
                      ELSE current_arr
                /\ bars' =
                      IF g.yields
                      THEN update_bars(TRUE, FALSE, states[g.step_index + 1], bars)
                      ELSE bars
                /\ shown' = IF draw THEN g.step_index ELSE shown
                /\ delivered' = IF draw THEN << g.step_index >> ELSE << >>
                /\ redraws' = 0
                /\ resumeMark' = -1
       ELSE IF start_resumes
       THEN /\ anim' = AnimResume(anim)
            /\ paused' = FALSE
            /\ label' = "Pause"
            /\ resumeMark' = Len(delivered)
            /\ UNCHANGED <<step_index, finished, generator, orphans, running,
                           current_arr, bars, shown, delivered, redraws>>
       ELSE UNCHANGED <<step_index, finished, generator, orphans, anim, running,
                        paused, label, current_arr, bars, shown, delivered,
                        redraws, resumeMark>>
    /\ lastEvent' = "start"
    /\ prev' = View
    /\ UNCHANGED loaderVars
    /\ UNCHANGED <<states, original_arr, window>>

(***************************************************************************)
(* pause_resume (lines 152-168).                                           *)
(***************************************************************************)
pause_resume_ignored_unless_idle == ~running

pause_resume_ignored == ~running \/ finished

pause_timer_forgotten(a) == a

pause_timer(a) == AnimPause(a)

pause_resume ==
    /\ window = "shown"
    /\ IF pause_resume_ignored
       THEN UNCHANGED <<anim, paused, label, resumeMark>>
       ELSE IF paused
       THEN /\ anim' = AnimResume(anim)
            /\ paused' = FALSE
            /\ label' = "Pause"
            /\ resumeMark' = Len(delivered)
       ELSE /\ anim' = pause_timer(anim)
            /\ paused' = TRUE
            /\ label' = "Resume"
            /\ UNCHANGED resumeMark
    /\ lastEvent' = "pause_resume"
    /\ prev' = View
    /\ UNCHANGED loaderVars
    /\ UNCHANGED <<states, original_arr, current_arr, bars, step_index, running,
                   finished, generator, orphans, window, shown, delivered,
                   redraws>>

(***************************************************************************)
(* reset (lines 171-191).  The animation anim is bound to is paused and    *)
(* stopped where it still has a timer, the flags and the bars are          *)
(* restored, and anim is rebound to a new placeholder animation, which     *)
(* line 188 pauses and the redraw of line 191 starts.  The generator       *)
(* object stays where it was suspended; nothing resumes it again.          *)
(***************************************************************************)
reset_index_kept == step_index

reset_index == 0

reset_finished_kept == finished

reset_finished == FALSE

reset_bars_kept == bars

reset_bars == SetHeights(bars, original_arr)

reset ==
    /\ window = "shown"
    /\ current_arr' = update_arr(FALSE, TRUE, original_arr, original_arr)
    /\ bars' = update_bars(FALSE, TRUE, original_arr, reset_bars)
    /\ step_index' = reset_index
    /\ running' = FALSE
    /\ paused' = TRUE
    /\ finished' = reset_finished
    /\ orphans' = Abandon(StopIfPresent(anim), orphans)
    /\ anim' = AnimStart(AnimPause(NewAnimation("dummy")))
    /\ label' = "Resume"
    /\ shown' = 0
    /\ delivered' = << >>
    /\ redraws' = 0
    /\ resumeMark' = -1
    /\ lastEvent' = "reset"
    /\ prev' = View
    /\ UNCHANGED loaderVars
    /\ UNCHANGED <<states, original_arr, generator, window>>

(***************************************************************************)
(* A placeholder animation steps: dummy_generator (lines 120-122) yields   *)
(* the array current_arr is bound to and update() receives it.  The        *)
(* recorded renders of one run are capped at MaxRedraw.                    *)
(***************************************************************************)
dummy_step ==
    /\ Renders(running, paused) => redraws < MaxRedraw
    /\ current_arr' = update_arr(running, paused, current_arr, current_arr)
    /\ bars' = update_bars(running, paused, current_arr, bars)
    /\ delivered' = IF Renders(running, paused)
                    THEN Append(delivered, shown) ELSE delivered
    /\ redraws' = IF Renders(running, paused) THEN redraws + 1 ELSE redraws
    /\ UNCHANGED <<step_index, finished, generator, anim, shown>>

(***************************************************************************)
(* The animation on state_generator steps: next() resumes the generator    *)
(* after its yield (line 106 increments step_index); a yielded frame goes  *)
(* to update(), and exhaustion (lines 107-108) ends the animation, which   *)
(* then has no timer.                                                      *)
(***************************************************************************)
generator_step ==
    LET g    == state_generator(generator, step_index, Len(states))
        draw == g.yields /\ Renders(running, paused)
    IN  /\ step_index' = g.step_index
        /\ finished' = (finished \/ g.sets_finished)
        /\ generator' = g.generator
        /\ anim' = IF g.yields THEN anim ELSE AnimExhaust(anim)
        /\ current_arr' =
              IF g.yields
              THEN update_arr(running, paused, states[g.step_index + 1], current_arr)
              ELSE current_arr
        /\ bars' =
              IF g.yields
              THEN update_bars(running, paused, states[g.step_index + 1], bars)
              ELSE bars
        /\ shown' = IF draw THEN g.step_index ELSE shown
        /\ delivered' = IF draw THEN Append(delivered, g.step_index) ELSE delivered
        /\ UNCHANGED redraws

\* The timer of the animation anim is bound to fires.
tick ==
    /\ window = "shown"
    /\ TimerFires(anim)
    /\ IF anim.frames = "dummy" THEN dummy_step ELSE generator_step
    /\ lastEvent' = "tick"
    /\ prev' = View
    /\ UNCHANGED loaderVars
    /\ UNCHANGED <<states, original_arr, running, paused, orphans, label, window,
                   resumeMark>>

\* The timer of an abandoned animation fires.
orphan_tick ==
    /\ window = "shown"
    /\ orphans > 0
    /\ dummy_step
    /\ lastEvent' = "orphan_tick"
    /\ prev' = View
    /\ UNCHANGED loaderVars
    /\ UNCHANGED <<states, original_arr, running, paused, orphans, label, window,
                   resumeMark>>

Next ==
    \/ show
    \/ start
    \/ pause_resume
    \/ reset
    \/ tick
    \/ orphan_tick

Spec == Init /\ [][Next]_vars

TypeOK ==
    /\ states \in LoadedStates
    /\ step_index \in 0..Len(states)
    /\ running \in BOOLEAN /\ paused \in BOOLEAN /\ finished \in BOOLEAN
    /\ generator \in {"none", "created", "suspended", "exhausted"}
    /\ anim.frames \in {"dummy", "generator"}
    /\ anim.event_source \in {"stopped", "running", "none"}
    /\ orphans \in 0..MaxOrphans
    /\ shown \in 0..(Len(states) - 1)
    /\ redraws \in 0..MaxRedraw

(***************************************************************************)
(* What holds of the deliveries of one run: they start at frame 0, never   *)
(* skip a frame and never go back; every repetition is a render by a       *)
(* placeholder animation, and a finished run has taken each frame from     *)
(* state_generator once.                                                   *)
(***************************************************************************)
RunInOrder ==
    /\ delivered # << >> => delivered[1] = 0
    /\ \A i \in 1..(Len(delivered) - 1) :
          delivered[i + 1] - delivered[i] \in {0, 1}
    /\ Cardinality({ i \in 1..(Len(delivered) - 1) : delivered[i + 1] = delivered[i] })
          = redraws
    /\ finished => Len(delivered) - redraws = Len(states)

-----------------------------------------------------------------------------
\* C1: Reset, requested in any playback state, leaves step_index = 0,
\* running = false, paused = true, finished = false and the bars at the
\* original first frame.
C1_ResetRestores ==
    lastEvent = "reset" =>
        /\ step_index = 0
        /\ ~running
        /\ paused
        /\ ~finished
        /\ bars = states[1]

\* Reset was requested in Finished, with the last frame (not the first) shown.
C1_Witness ==
    /\ lastEvent = "reset"
    /\ prev.finished
    /\ prev.bars # states[1]

\* C2 (as claimed): in one run the frames delivered to the renderer are the
\* frames 0..len-1, each exactly once and in order, and a finished run has
\* delivered exactly len(states) frames and delivers no more.
C2_EachFrameOnce ==
    /\ \A i \in 1..Len(delivered) : delivered[i] = i - 1
    /\ finished => Len(delivered) = Len(states)

\* C3 (as claimed): pausing and resuming leave step_index alone, and the
\* first frame delivered after a resume is the successor of the last frame
\* delivered before the pause.
C3_ResumeDeliversNext ==
    /\ (lastEvent \in {"pause_resume", "start"} /\ prev.running /\ ~prev.finished)
          => step_index = prev.step_index
    /\ (resumeMark >= 1 /\ Len(delivered) > resumeMark)
          => delivered[resumeMark + 1] = delivered[resumeMark] + 1

\* C4 (as claimed): when step_index reaches the sequence length the
\* controller sets finished = true and running = false, so finished implies
\* not running.
C4_FinishedNotRunning ==
    /\ step_index = Len(states) => finished /\ ~running
    /\ finished => ~running

\* C4 (amended): when step_index reaches the sequence length the controller
\* sets finished = true and leaves running = true, so finished implies
\* running.
C4_FinishedStillRunning ==
    /\ step_index = Len(states) => finished /\ running
    /\ finished => running

\* The tick that exhausted the frame sequence has just run.
C4_Witness ==
    /\ lastEvent = "tick"
    /\ ~prev.finished
    /\ finished
    /\ step_index = Len(states)

\* C5: Start requested while Finished changes nothing: step_index, the
\* flags, the timers and the bars are as before.
C5_StartWhenFinishedNoOp ==
    (lastEvent = "start" /\ prev.finished) => View = prev

\* Start was requested in Finished.
C5_Witness ==
    /\ lastEvent = "start"
    /\ prev.finished
    /\ prev.step_index = Len(states)

\* C6 (as claimed): at most one timer is active at any moment.
C6_SingleTimer == ActiveTimers <= 1

\* C7: only Reset lowers step_index, and Start assigns step_index = 0 only
\* when it is 0 already.
C7_IndexMonotone ==
    /\ lastEvent # "reset" => step_index >= prev.step_index
    /\ (lastEvent = "start" /\ ~prev.running) => prev.step_index = 0

\* Start from Idle after an earlier run that had finished and was reset.
C7_Witness ==
    /\ lastEvent = "start"
    /\ ~prev.running
    /\ prev.generator = "exhausted"
    /\ running

\* C8: a timer tick while Idle or Paused leaves the bars and step_index
\* unchanged.
C8_TickOnlyWhenPlaying ==
    (lastEvent \in {"tick", "orphan_tick"} /\ ~(prev.running /\ ~prev.paused))
        => /\ bars = prev.bars
           /\ step_index = prev.step_index

\* A timer fired while the run was Paused part-way through.
C8_Witness ==
    /\ lastEvent \in {"tick", "orphan_tick"}
    /\ prev.running
    /\ prev.paused
    /\ prev.step_index > 0

\* C9: Pause/Resume requested while not running or finished changes
\* nothing.
C9_PauseIgnored ==
    (lastEvent = "pause_resume" /\ (~prev.running \/ prev.finished))
        => View = prev

\* Pause/Resume was requested in Finished.
C9_Witness ==
    /\ lastEvent = "pause_resume"
    /\ prev.finished
    /\ prev.running

\* C10: Start requested while Running changes nothing: no new run, no new
\* timer or frame source.
C10_StartWhenRunningNoOp ==
    (lastEvent = "start" /\ prev.running /\ ~prev.paused /\ ~prev.finished)
        => View = prev

\* Start was requested while Running, part-way through the frames.
C10_Witness ==
    /\ lastEvent = "start"
    /\ prev.running
    /\ ~prev.paused
    /\ ~prev.finished
    /\ prev.step_index > 0

-----------------------------------------------------------------------------
(***************************************************************************)
(* The loader: lines 32-73 of plot_sorting_animation_from_json.            *)
(*                                                                         *)
(* A Python string is a sequence of one-character strings here, so that    *)
(* lower(), the substring test, split('_') and int() are computed and not  *)
(* assumed.                                                                *)
(***************************************************************************)
MaxLines == 3       \* longest log read

UpperCase == << "A", "B", "C", "D", "E", "F", "G", "H", "I", "J", "K", "L", "M",
                "N", "O", "P", "Q", "R", "S", "T", "U", "V", "W", "X", "Y", "Z" >>

LowerCase == << "a", "b", "c", "d", "e", "f", "g", "h", "i", "j", "k", "l", "m",
                "n", "o", "p", "q", "r", "s", "t", "u", "v", "w", "x", "y", "z" >>

LowerChar(c) ==
    IF \E i \in DOMAIN UpperCase : UpperCase[i] = c
    THEN LowerCase[CHOOSE i \in DOMAIN UpperCase : UpperCase[i] = c]
    ELSE c

\* str.lower()
Lower(str) == [i \in DOMAIN str |-> LowerChar(str[i])]

\* sub in str
Contains(str, sub) ==
    \E i \in 0..(Len(str) - Len(sub)) : SubSeq(str, i + 1, i + Len(sub)) = sub

\* str.split('_')[0]
FirstSegment(str) ==
    IF \E i \in DOMAIN str : str[i] = "_"
    THEN SubSeq(str, 1, (CHOOSE i \in DOMAIN str :
                            /\ str[i] = "_"
                            /\ \A j \in 1..(i - 1) : str[j] # "_") - 1)
    ELSE str

Digits == << "0", "1", "2", "3", "4", "5", "6", "7", "8", "9" >>

IsDigit(c) == \E d \in DOMAIN Digits : Digits[d] = c

DigitValue(c) == (CHOOSE d \in DOMAIN Digits : Digits[d] = c) - 1

RECURSIVE DigitsValue(_)
DigitsValue(ds) ==
    IF ds = << >> THEN 0
    ELSE 10 * DigitsValue(SubSeq(ds, 1, Len(ds) - 1)) + DigitValue(ds[Len(ds)])

\* int(str) for the texts a key can start with: an optional sign and at
\* least one digit; anything else raises ValueError (ok = FALSE).
ParseInt(str) ==
    LET signed == str # << >> /\ str[1] \in {"-", "+"}
        ds     == IF signed THEN Tail(str) ELSE str
    IN  IF ds # << >> /\ \A i \in DOMAIN ds : IsDigit(ds[i])
        THEN [ok |-> TRUE,
              value |-> IF signed /\ str[1] = "-" THEN 0 - DigitsValue(ds)
                        ELSE DigitsValue(ds)]
        ELSE [ok |-> FALSE, value |-> 0]

\* algo_map (lines 32-38)
BubbleSortName ==
    << "b", "u", "b", "b", "l", "e", " ", "s", "o", "r", "t" >>
MergeSortName ==
    << "m", "e", "r", "g", "e", " ", "s", "o", "r", "t" >>
QuickSortName ==
    << "q", "u", "i", "c", "k", " ", "s", "o", "r", "t" >>
RadixSortName ==
    << "r", "a", "d", "i", "x", " ", "s", "o", "r", "t" >>
LinearSearchName ==
    << "l", "i", "n", "e", "a", "r", " ", "s", "e", "a", "r", "c", "h", " ",
       "a", "l", "g", "o", "r", "i", "t", "h", "m" >>

BubbleTag == << "b", "u", "b", "b", "l", "e" >>
MergeTag == << "m", "e", "r", "g", "e" >>
QuickTag == << "q", "u", "i", "c", "k" >>
RadixTag == << "r", "a", "d", "i", "x" >>
LinearTag == << "l", "i", "n", "e", "a", "r" >>

algo_map_keys ==
    { BubbleSortName, MergeSortName, QuickSortName, RadixSortName, LinearSearchName }

algo_map(name) ==
    CASE name = BubbleSortName   -> BubbleTag
      [] name = MergeSortName    -> MergeTag
      [] name = QuickSortName    -> QuickTag
      [] name = RadixSortName    -> RadixTag
      [] name = LinearSearchName -> LinearTag

\* algo_map.get(algo_name.lower(), None); << >> stands for None (line 39)
sorttype_case_sensitive(algo_name) ==
    IF algo_name \in algo_map_keys THEN algo_map(algo_name) ELSE << >>

sorttype_of(algo_name) ==
    IF Lower(algo_name) \in algo_map_keys THEN algo_map(Lower(algo_name)) ELSE << >>

(***************************************************************************)
(* The log.  A line is the text of one line of the file: decodes says      *)
(* whether json.loads accepts it, items are the (key, value) pairs of the  *)
(* object it decodes to, in order.                                         *)
(***************************************************************************)
Key(step, tag, aux) == step \o << "_" >> \o tag \o << "_" >> \o aux

Entry(key, value) ==
    [decodes |-> TRUE, items |-> << [key |-> key, value |-> value] >>]

BadLine == [decodes |-> FALSE, items |-> << >>]

LineSet ==
    { Entry(Key(<< "0", "0" >>, BubbleTag, << "t", "1" >>), << 2, 1 >>),
      Entry(Key(<< "0" >>, BubbleTag, << "t", "2" >>), << 1, 2 >>),
      Entry(Key(<< "-", "1" >>, << "B", "u", "b", "b", "l", "e" >>, << "a" >>), << 1, 1 >>),
      Entry(Key(<< "1" >>, BubbleTag, << "t", "3" >>), << 2, 1 >>),
      Entry(Key(<< "x" >>, BubbleTag, << "t", "1" >>), << 1, 2 >>),
      Entry(Key(<< "0" >>, MergeTag, << "a" >>), << 2, 1 >>),
      BadLine }

NameSet ==
    { << "B", "u", "b", "b", "l", "e", " ", "S", "o", "r", "t" >>,
      MergeSortName,
      << "H", "e", "a", "p", " ", "S", "o", "r", "t" >>,
      BubbleTag }

\* The log and the request of the worked example: lines
\* {"00_bubble_t1":[3,1,2]} and {"01_bubble_t2":[1,3,2]} for "Bubble Sort".
ExampleCall ==
    [log |-> << Entry(Key(<< "0", "0" >>, BubbleTag, << "t", "1" >>), << 3, 1, 2 >>),
                Entry(Key(<< "0", "1" >>, BubbleTag, << "t", "2" >>), << 1, 3, 2 >>) >>,
     algo_name |-> << "B", "u", "b", "b", "l", "e", " ", "S", "o", "r", "t" >>]

LoadCalls ==
    { ExampleCall } \cup
    [log : UNION { [1..k -> LineSet] : k \in 0..MaxLines }, algo_name : NameSet]

(***************************************************************************)
(* Lines 48-60: the loop over the lines and over the items of each line.   *)
(* A result is [ok, records]; ok = FALSE is an exception on its way to     *)
(* the except clause of line 71.  A record keeps where its entry stood in  *)
(* the log (line, item): the order of encounter.                           *)
(***************************************************************************)
\* line 52
key_matches(key, tag) == Contains(Lower(key), tag)

\* lines 54-56
step_of(key) == ParseInt(FirstSegment(key))

\* lines 57-59: the warning, and the loop goes on
on_invalid_step_raise(acc) == [ok |-> FALSE, records |-> acc]

on_invalid_step(acc) == [ok |-> TRUE, records |-> acc]

\* line 49 raising, caught at lines 71-73
on_decode_error_skip(acc) == [ok |-> TRUE, records |-> acc]

on_decode_error(acc) == [ok |-> FALSE, records |-> acc]

RECURSIVE ReadItems(_, _, _, _, _)
ReadItems(items, i, j, tag, acc) ==
    IF j > Len(items) THEN [ok |-> TRUE, records |-> acc]
    ELSE IF ~key_matches(items[j].key, tag)
    THEN ReadItems(items, i, j + 1, tag, acc)
    ELSE LET p == step_of(items[j].key)
         IN  IF p.ok
             THEN ReadItems(items, i, j + 1, tag,
                            Append(acc, [step |-> p.value, value |-> items[j].value,
                                         line |-> i, item |-> j]))
             ELSE LET r == on_invalid_step(acc)
                  IN  IF r.ok THEN ReadItems(items, i, j + 1, tag, r.records) ELSE r

RECURSIVE ReadLines(_, _, _, _)
ReadLines(lines, i, tag, acc) ==
    IF i > Len(lines) THEN [ok |-> TRUE, records |-> acc]
    ELSE IF ~lines[i].decodes
    THEN LET r == on_decode_error(acc)
         IN  IF r.ok THEN ReadLines(lines, i + 1, tag, r.records) ELSE r
    ELSE LET r == ReadItems(lines[i].items, i, 1, tag, acc)
         IN  IF r.ok THEN ReadLines(lines, i + 1, tag, r.records) ELSE r

(***************************************************************************)
(* Line 62: states.sort(key=lambda x: x[0]), a stable sort, computed by    *)
(* insertion: a record goes behind every record whose step is not larger.  *)
(***************************************************************************)
InsertRecord_before_equal(sorted, r) ==
    LET k == Cardinality({ i \in DOMAIN sorted : sorted[i].step < r.step })
    IN  SubSeq(sorted, 1, k) \o << r >> \o SubSeq(sorted, k + 1, Len(sorted))

InsertRecord(sorted, r) ==
    LET k == Cardinality({ i \in DOMAIN sorted : sorted[i].step <= r.step })
    IN  SubSeq(sorted, 1, k) \o << r >> \o SubSeq(sorted, k + 1, Len(sorted))

RECURSIVE SortRecords(_)
SortRecords(recs) ==
    IF recs = << >> THEN << >>
    ELSE InsertRecord(SortRecords(SubSeq(recs, 1, Len(recs) - 1)), recs[Len(recs)])

\* line 63
ExtractFrames(recs) == [i \in DOMAIN recs |-> recs[i].value]

\* sorted(frame)
InsertValue(sorted, v) ==
    LET k == Cardinality({ i \in DOMAIN sorted : sorted[i] <= v })
    IN  SubSeq(sorted, 1, k) \o << v >> \o SubSeq(sorted, k + 1, Len(sorted))

RECURSIVE SortedCopy(_)
SortedCopy(frame) ==
    IF frame = << >> THEN << >>
    ELSE InsertValue(SortedCopy(SubSeq(frame, 1, Len(frame) - 1)), frame[Len(frame)])

\* lines 65-66
complete_never(frames) == frames

complete(frames) ==
    IF frames # << >> /\ frames[Len(frames)] # SortedCopy(frames[Len(frames)])
    THEN Append(frames, SortedCopy(frames[Len(frames)]))
    ELSE frames

\* line 67
no_steps_unchecked(frames) == FALSE

no_steps(frames) == frames = << >>

(***************************************************************************)
(* Lines 32-73 as a function of the call: how the loading ends, whether    *)
(* the file was opened, the sorted records and the frame sequence.         *)
(***************************************************************************)
LoadResult(how, opened, recs, frames) ==
    [outcome |-> how, opened |-> opened, records |-> recs, states |-> frames]

load_log(c) ==
    LET sorttype == sorttype_of(c.algo_name)
    IN  IF sorttype = << >>
        THEN LoadResult("UnsupportedAlgorithm", FALSE, << >>, << >>)
        ELSE LET r == ReadLines(c.log, 1, sorttype, << >>)
             IN  IF ~r.ok
                 THEN LoadResult("MalformedLog", TRUE, << >>, << >>)
                 ELSE LET recs   == SortRecords(r.records)
                          frames == complete(ExtractFrames(recs))
                      IN  IF no_steps(frames)
                          THEN LoadResult("NoStepsFound", TRUE, recs, << >>)
                          ELSE LoadResult("loaded", TRUE, recs, frames)

(***************************************************************************)
(* The call of plot_sorting_animation_from_json up to line 218.  Before    *)
(* it and after a return at line 42, 69 or 73 there is no window, no       *)
(* animation and no closure: the variables hold empty values.              *)
(***************************************************************************)
NoAnimation == [frames |-> "none", event_source |-> "none", started |-> FALSE]

InitLoad ==
    /\ call \in LoadCalls
    /\ outcome = "pending"
    /\ log_opened = FALSE
    /\ step_records = << >>
    /\ states = << >>
    /\ original_arr = << >>
    /\ current_arr = << >>
    /\ bars = << >>
    /\ step_index = 0
    /\ running = FALSE
    /\ paused = FALSE
    /\ finished = FALSE
    /\ generator = "none"
    /\ anim = NoAnimation
    /\ orphans = 0
    /\ label = "none"
    /\ window = "none"
    /\ shown = 0
    /\ delivered = << >>
    /\ redraws = 0
    /\ resumeMark = -1
    /\ lastEvent = "call"
    /\ prev = View

\* Lines 32-127 and 193-218.  With a frame sequence the window and the
\* figure are created (lines 76-80); states[0] at line 82 raises IndexError
\* on an empty sequence, otherwise the closure is set up as in Init.
load ==
    /\ outcome = "pending"
    /\ LET r == load_log(call)
       IN  /\ log_opened' = r.opened
           /\ step_records' = r.records
           /\ IF r.outcome # "loaded"
              THEN /\ outcome' = r.outcome
                   /\ UNCHANGED <<states, original_arr, current_arr, bars, paused,
                                  anim, label, window>>
              ELSE IF r.states = << >>
              THEN /\ outcome' = "IndexError"
                   /\ window' = "hidden"
                   /\ UNCHANGED <<states, original_arr, current_arr, bars, paused,
                                  anim, label>>
              ELSE /\ outcome' = "loaded"
                   /\ window' = "hidden"
                   /\ states' = r.states
                   /\ original_arr' = r.states[1]
                   /\ current_arr' = r.states[1]
                   /\ bars' = r.states[1]
                   /\ paused' = TRUE
                   /\ anim' = AnimPause(NewAnimation("dummy"))
                   /\ label' = "Resume"
    /\ lastEvent' = "init"
    /\ prev' = View
    /\ UNCHANGED <<call, step_index, running, finished, generator, orphans, shown,
                   delivered, redraws, resumeMark>>

NextLoad == load

SpecLoad == InitLoad /\ [][NextLoad]_vars

\* A successful load leaves the closure as Init describes it.
LoadedAsInit ==
    outcome = "loaded" =>
        /\ IsSorted(states[Len(states)])
        /\ original_arr = states[1] /\ current_arr = states[1] /\ bars = states[1]
        /\ step_index = 0 /\ ~running /\ paused /\ ~finished
        /\ generator = "none" /\ anim = AnimPause(NewAnimation("dummy"))
        /\ orphans = 0 /\ label = "Resume" /\ window = "hidden"
        /\ shown = 0 /\ delivered = << >> /\ redraws = 0 /\ resumeMark = -1

-----------------------------------------------------------------------------
\* What the loader claims are stated with.
AllDecode(c) == \A i \in DOMAIN c.log : c.log[i].decodes

Supported(c) ==
    \E k \in algo_map_keys :
        /\ Len(k) = Len(c.algo_name)
        /\ \A i \in DOMAIN k :
              \/ c.algo_name[i] = k[i]
              \/ \E u \in DOMAIN UpperCase :
                    UpperCase[u] = c.algo_name[i] /\ LowerCase[u] = k[i]

\* The entries of the log that are steps of the requested algorithm:
\* (line, item) of every matching key with an integer before its first "_".
ValidCandidates(c) ==
    { p \in (DOMAIN c.log) \X (1..1) :
        /\ c.log[p[1]].decodes
        /\ p[2] \in DOMAIN c.log[p[1]].items
        /\ key_matches(c.log[p[1]].items[p[2]].key, sorttype_of(c.algo_name))
        /\ step_of(c.log[p[1]].items[p[2]].key).ok }

InvalidCandidates(c) ==
    { p \in (DOMAIN c.log) \X (1..1) :
        /\ c.log[p[1]].decodes
        /\ p[2] \in DOMAIN c.log[p[1]].items
        /\ key_matches(c.log[p[1]].items[p[2]].key, sorttype_of(c.algo_name))
        /\ ~step_of(c.log[p[1]].items[p[2]].key).ok }

Origin(r) == << r.line, r.item >>

Earlier(r, q) == r.line < q.line \/ (r.line = q.line /\ r.item < q.item)

Count(f, v) == Cardinality({ i \in DOMAIN f : f[i] = v })

SameValues(f, g) ==
    /\ Len(f) = Len(g)
    /\ \A i \in DOMAIN f : Count(f, f[i]) = Count(g, f[i])

NothingCreated ==
    /\ window = "none"
    /\ anim = NoAnimation
    /\ states = << >>
    /\ bars = << >>

\* C11: when every line decodes, the extracted frames stand in ascending
\* order of their integer step (negative steps first), and records with
\* equal steps keep the order in which the log held them.
C11_StableAscending ==
    (outcome \in {"loaded", "NoStepsFound"}) =>
        /\ \A i \in DOMAIN step_records :
              /\ Origin(step_records[i]) \in ValidCandidates(call)
              /\ step_records[i].value =
                    call.log[step_records[i].line].items[step_records[i].item].value
        /\ \A i, j \in DOMAIN step_records :
              i < j =>
                 \/ step_records[i].step < step_records[j].step
                 \/ /\ step_records[i].step = step_records[j].step
                    /\ Earlier(step_records[i], step_records[j])
        /\ outcome = "loaded" =>
              \A i \in DOMAIN step_records : states[i] = step_records[i].value

\* A log whose sorting moved a later line forward, with a negative step and
\* two records of equal step and different frames.
C11_Witness ==
    /\ outcome = "loaded"
    /\ \E i, j \in DOMAIN step_records :
          i < j /\ step_records[i].line > step_records[j].line
    /\ \E i \in DOMAIN step_records : step_records[i].step < 0
    /\ \E i, j \in DOMAIN step_records :
          /\ i < j
          /\ step_records[i].step = step_records[j].step
          /\ step_records[i].value # step_records[j].value

\* C12: a frame sequence the loader produces ends with a sorted frame: one
\* frame, the sorted copy of the last extracted frame, is appended when
\* that frame is not sorted, and nothing is appended when it is; the
\* worked example yields [[3,1,2],[1,3,2],[1,2,3]].
C12_EndsSorted ==
    outcome = "loaded" =>
        LET n    == Len(step_records)
            last == step_records[n].value
        IN  /\ IsSorted(states[Len(states)])
            /\ IF IsSorted(last)
               THEN Len(states) = n
               ELSE /\ Len(states) = n + 1
                    /\ SameValues(states[n + 1], last)
            /\ call = ExampleCall =>
                  states = << << 3, 1, 2 >>, << 1, 3, 2 >>, << 1, 2, 3 >> >>

\* The worked example has been loaded and a frame was appended.
C12_Witness ==
    /\ outcome = "loaded"
    /\ call = ExampleCall
    /\ Len(states) = Len(step_records) + 1

\* C13: a line that does not decode aborts the load wherever it stands:
\* no frame sequence, no window, no timer.
C13_BadLineAborts ==
    (outcome # "pending" /\ ~AllDecode(call)) =>
        /\ outcome \in {"MalformedLog", "UnsupportedAlgorithm"}
        /\ Supported(call) => outcome = "MalformedLog"
        /\ NothingCreated

\* The bad line stood between two valid steps of the requested algorithm.
C13_Witness ==
    /\ outcome = "MalformedLog"
    /\ Len(call.log) = 3
    /\ ~call.log[2].decodes
    /\ << 1, 1 >> \in ValidCandidates(call)
    /\ << 3, 1 >> \in ValidCandidates(call)

\* C14: a matching key without an integer before its first "_" is dropped
\* and the load goes on: the records are exactly the valid candidates of
\* the log, and each of their frames is in the result.
C14_InvalidKeyDropped ==
    (outcome # "pending" /\ Supported(call) /\ AllDecode(call)) =>
        /\ outcome \in {"loaded", "NoStepsFound"}
        /\ { Origin(step_records[i]) : i \in DOMAIN step_records } = ValidCandidates(call)
        /\ Len(step_records) = Cardinality(ValidCandidates(call))
        /\ outcome = "loaded" <=> ValidCandidates(call) # {}
        /\ outcome = "loaded" =>
              \A p \in ValidCandidates(call) :
                  \E i \in DOMAIN step_records :
                      /\ Origin(step_records[i]) = p
                      /\ states[i] = call.log[p[1]].items[p[2]].value

\* An invalid key stood between two valid steps, and both were loaded.
C14_Witness ==
    /\ outcome = "loaded"
    /\ Len(call.log) = 3
    /\ << 2, 1 >> \in InvalidCandidates(call)
    /\ << 1, 1 >> \in ValidCandidates(call)
    /\ << 3, 1 >> \in ValidCandidates(call)
    /\ Len(step_records) = 2

\* C15: a window, a timer or playback state exists only with a frame
\* sequence that is not empty; a log without step records for the
\* requested algorithm ends in NoStepsFound with nothing created.
C15_NeverEmpty ==
    outcome # "pending" =>
        /\ window # "none" => (outcome = "loaded" /\ states # << >>)
        /\ (Supported(call) /\ AllDecode(call) /\ ValidCandidates(call) = {}) =>
              (outcome = "NoStepsFound" /\ NothingCreated)

\* A log with lines, none of them a step of the requested algorithm.
C15_Witness ==
    /\ outcome = "NoStepsFound"
    /\ Len(call.log) >= 2
    /\ NothingCreated

\* C16: a name is accepted exactly when it equals an entry of the lexicon
\* up to letter case; any other name ends in UnsupportedAlgorithm before
\* the log is opened, with nothing created.
C16_LexiconOnly ==
    outcome # "pending" =>
        /\ outcome = "UnsupportedAlgorithm" <=> ~Supported(call)
        /\ outcome = "UnsupportedAlgorithm" => (~log_opened /\ NothingCreated)

\* "Heap Sort" was requested on a log that holds valid bubble steps.
C16_Witness ==
    /\ outcome = "UnsupportedAlgorithm"
    /\ call.algo_name = << "H", "e", "a", "p", " ", "S", "o", "r", "t" >>
    /\ \E i \in DOMAIN call.log :
          /\ call.log[i].decodes
          /\ key_matches(call.log[i].items[1].key, BubbleTag)
          /\ step_of(call.log[i].items[1].key).ok

-----------------------------------------------------------------------------
\* Frames of the sequence rendered so far in this run: the renders of
\* placeholder animations are not among them.
SequenceFramesDelivered == Len(delivered) - redraws

\* C17 (as claimed): the tick that delivers a frame increments step_index
\* as well, so between ticks step_index is the number of frames of the
\* sequence delivered so far in the run.
C17_IndexCountsDelivered ==
    running => step_index = SequenceFramesDelivered

\* C17 (amended): between the ticks of a run step_index is the index of
\* the frame delivered last, one less than the number of frames of the
\* sequence delivered so far; a tick increments step_index first and then
\* delivers the frame at the new index, and only the tick that finds the
\* sequence exhausted leaves step_index at the number of frames delivered.
C17_IndexIsLastDelivered ==
    /\ (running /\ ~finished) =>
          /\ step_index = SequenceFramesDelivered - 1
          /\ delivered[Len(delivered)] = step_index
          /\ bars = states[step_index + 1]
    /\ finished =>
          /\ step_index = SequenceFramesDelivered
          /\ step_index = Len(states)
    /\ (lastEvent = "tick" /\ prev.running /\ ~prev.paused /\ ~finished) =>
          step_index = prev.step_index + 1

\* The run's timer has just delivered a frame after frame 0.
C17_Witness ==
    /\ lastEvent = "tick"
    /\ running
    /\ ~finished
    /\ step_index >= 1
    /\ prev.step_index = step_index - 1
    /\ delivered[Len(delivered)] = step_index

\* C18: whenever running is false, paused is true, finished is false and
\* step_index is 0.
C18_IdleState ==
    ~running => (paused /\ ~finished /\ step_index = 0)

\* Idle again after a run that had finished was reset, with a placeholder
\* timer having fired since.
C18_Witness ==
    /\ ~running
    /\ window = "shown"
    /\ generator = "exhausted"
    /\ lastEvent \in {"tick", "orphan_tick"}

\* C19: step_index stays within 0..len(states), every frame delivered is a
\* frame of states, and finished implies step_index = len(states).
C19_IndexInBounds ==
    /\ step_index >= 0
    /\ step_index <= Len(states)
    /\ \A i \in DOMAIN delivered :
          delivered[i] >= 0 /\ delivered[i] < Len(states)
    /\ delivered # << >> => bars = states[delivered[Len(delivered)] + 1]
    /\ finished => step_index = Len(states)

\* A run over several frames has finished.
C19_Witness ==
    /\ finished
    /\ Len(states) >= 2
    /\ step_index = Len(states)
    /\ SequenceFramesDelivered = Len(states)

(***************************************************************************)
(* Liveness.  The timer of the animation anim is bound to fires every      *)
(* 3000 ms for as long as it is running: tick is taken if it stays         *)
(* enabled.                                                                *)
(***************************************************************************)
SpecLive == Init /\ [][Next]_vars /\ WF_vars(tick)

Playing == running /\ ~paused /\ ~finished

\* A run that is playing is paused, reset or finished in the end.
RunFinishes == Playing ~> (paused \/ ~running \/ finished)

\* The timer of a finished run is gone.
FinishedRunHasNoTimer == finished => anim.event_source = "none"

\* C20 (as claimed): a run that is playing, unless it is paused or reset,
\* reaches finished and the ticking stops: no timer is left active.
C20_FinishesAndTickingStops ==
    Playing ~> (paused \/ ~running \/ (finished /\ ActiveTimers = 0))

====
